---- MODULE Spec2Model ----
(***************************************************************************)
(* A model of schwa's structural-diff engine (parsing/java_parser.py), its *)
(* extraction pipeline (extraction/git_extractor.py) and its time weighted *)
(* risk analysis (analysis/time_weighted_risk.py).                         *)
(*                                                                         *)
(* Source text is a sequence of lines (the result of source.split("\n")).  *)
(* The lines are drawn from a five-line Java vocabulary, kept as the real  *)
(* text, so that every model source is a real input of JavaParser.diff.    *)
(***************************************************************************)
EXTENDS Integers, Sequences, FiniteSets, TLC

\* ------------------------------------------------------------------ bounds
\* Lines between the opening "class C {" and the closing "}" of a source.
MaxMembers == 3

\* ------------------------------------------------------ the line vocabulary
CLS == "class C {"
ST == "int x;"
F1 == "void f() {}"
MG == "void g() {"
END == "}"

MemberLines == {ST, F1, MG, END}

\* All sequences over S of length 0..n.
RECURSIVE SeqsUpTo(_, _)
SeqsUpTo(S, n) ==
  IF n = 0 THEN {<<>>}
  ELSE LET shorter == SeqsUpTo(S, n - 1)
       IN shorter \cup {Append(s, x) : s \in {t \in shorter : Len(t) = n - 1}, x \in S}

\* The source texts of the model: one top-level class around up to MaxMembers
\* lines.  Unbalanced ones (a stray "}", an unclosed method) are included:
\* they are the sources that do not parse.
Sources == {<<CLS>> \o m \o <<END>> : m \in SeqsUpTo(MemberLines, MaxMembers)}

\* ------------------------------------------------------------------ parsing
\* plyj's syntax tree, as far as parse_tree reads it: a node has a type, a
\* name, the line range of a method, and a body.
Node(type, name, start_line, end_line, body) ==
  [type |-> type, name |-> name, start_line |-> start_line,
   end_line |-> end_line, body |-> body]

ParsingError == [ok |-> FALSE, body |-> <<>>, pos |-> 0]

\* Statements of a method body: "int x;" lines, up to the closing brace.
RECURSIVE SkipStatements(_, _)
SkipStatements(lines, pos) ==
  IF pos <= Len(lines) /\ lines[pos] = ST THEN SkipStatements(lines, pos + 1)
  ELSE pos

\* The members of a class body from line pos on, up to (not including) the
\* line that closes the class.
RECURSIVE ParseMembers(_, _)
ParseMembers(lines, pos) ==
  IF pos > Len(lines) THEN ParsingError
  ELSE IF lines[pos] = END THEN [ok |-> TRUE, body |-> <<>>, pos |-> pos]
  ELSE IF lines[pos] = ST THEN
    LET rest == ParseMembers(lines, pos + 1)
    IN IF rest.ok
       THEN [rest EXCEPT !.body = <<Node("FieldDeclaration", "x", pos, pos, <<>>)>> \o @]
       ELSE ParsingError
  ELSE IF lines[pos] = F1 THEN
    LET rest == ParseMembers(lines, pos + 1)
    IN IF rest.ok
       THEN [rest EXCEPT !.body = <<Node("MethodDeclaration", "f", pos, pos, <<>>)>> \o @]
       ELSE ParsingError
  ELSE IF lines[pos] = MG THEN
    LET close == SkipStatements(lines, pos + 1)
    IN IF close <= Len(lines) /\ lines[close] = END
       THEN LET rest == ParseMembers(lines, close + 1)
            IN IF rest.ok
               THEN [rest EXCEPT !.body = <<Node("MethodDeclaration", "g", pos, close, <<>>)>> \o @]
               ELSE ParsingError
       ELSE ParsingError
  ELSE \* a nested class
    LET inner == ParseMembers(lines, pos + 1)
    IN IF inner.ok
       THEN LET rest == ParseMembers(lines, inner.pos + 1)
            IN IF rest.ok
               THEN [rest EXCEPT !.body = <<Node("ClassDeclaration", "C", pos, inner.pos, inner.body)>> \o @]
               ELSE ParsingError
       ELSE ParsingError

\* The type declarations of a compilation unit from line pos on.
RECURSIVE ParseTypes(_, _)
ParseTypes(lines, pos) ==
  IF pos > Len(lines) THEN [ok |-> TRUE, body |-> <<>>, pos |-> pos]
  ELSE IF lines[pos] # CLS THEN ParsingError
  ELSE LET inner == ParseMembers(lines, pos + 1)
       IN IF inner.ok
          THEN LET rest == ParseTypes(lines, inner.pos + 1)
               IN IF rest.ok
                  THEN [rest EXCEPT !.body = <<Node("ClassDeclaration", "C", pos, inner.pos, inner.body)>> \o @]
                  ELSE ParsingError
          ELSE ParsingError

\* parser.parse_string(code), then tree.body = tree.type_declarations.
parse_string(code) ==
  LET r == ParseTypes(code, 1)
  IN [ok |-> r.ok, tree |-> Node("CompilationUnit", "", 0, 0, r.body)]

IsMethod(m) == m.type \in {"MethodDeclaration", "ConstructorDeclaration"}

\* parse_tree(tree, parent_classes): one component per method that has an end
\* line, then the components of the nested classes.  A component is
\* [start, end, class path, method name]; the class path is kept as the list
\* of names that ".".join glues.
RECURSIVE ClassComponents(_, _)
RECURSIVE parse_tree(_, _)
parse_tree(tree, parent_classes) ==
  LET my_parent_classes ==
        IF tree.type = "ClassDeclaration" THEN Append(parent_classes, tree.name)
        ELSE parent_classes
      methods == SelectSeq(tree.body, IsMethod)
      classes == SelectSeq(tree.body, LAMBDA c : c.type = "ClassDeclaration")
      own == [i \in 1..Len(methods) |->
                <<methods[i].start_line, methods[i].end_line, my_parent_classes, methods[i].name>>]
  IN SelectSeq(own, LAMBDA c : c[2] # 0) \o ClassComponents(classes, my_parent_classes)

ClassComponents(classes, parents) ==
  IF classes = <<>> THEN <<>>
  ELSE parse_tree(Head(classes), parents) \o ClassComponents(Tail(classes), parents)

\* JavaParser.parse: the components, or the empty list on a syntax error.
parse(code) ==
  LET r == parse_string(code)
  IN IF r.ok THEN parse_tree(r.tree, <<>>) ELSE <<>>

\* ------------------------------------------------------------ difflib.ndiff
\* Characters of a line, and the characters SequenceMatcher(IS_CHARACTER_JUNK)
\* matches between two different lines of the vocabulary (the sum of the sizes
\* of its matching blocks); it is symmetric on this vocabulary.
LineLen(x) ==
  CASE x = CLS -> 9
    [] x = ST -> 6
    [] x = F1 -> 11
    [] x = MG -> 10
    [] OTHER -> 1

Matches(x, y) ==
  IF x = y THEN LineLen(x)
  ELSE IF {x, y} = {F1, MG} THEN 9
  ELSE IF {x, y} \in {{CLS, F1}, {CLS, MG}} THEN 2
  ELSE IF {x, y} \in {{ST, F1}, {ST, MG}, {F1, END}} THEN 1
  ELSE 0

\* ratio() = 2.0 * M / T, kept as the fraction <<2M, T>>.
RatioNum(x, y) == 2 * Matches(x, y)
RatioDen(x, y) == LineLen(x) + LineLen(y)

\* Length of the common run of a from i and b from j, inside a[..ahi), b[..bhi).
RECURSIVE MatchLen(_, _, _, _, _, _)
MatchLen(a, b, i, j, ahi, bhi) ==
  IF i < ahi /\ j < bhi /\ a[i] = b[j] THEN 1 + MatchLen(a, b, i + 1, j + 1, ahi, bhi)
  ELSE 0

\* SequenceMatcher.find_longest_match without junk: the longest block, of
\* those the one starting earliest in a, of those the one earliest in b.
\* Ranges are half open, [alo, ahi) and [blo, bhi), over 1-based indices.
find_longest_match(a, b, alo, ahi, blo, bhi) ==
  LET cands == {<<i, j, MatchLen(a, b, i, j, ahi, bhi)>> : i \in alo..(ahi - 1), j \in blo..(bhi - 1)}
      real == {c \in cands : c[3] > 0}
  IN IF real = {} THEN <<alo, blo, 0>>
     ELSE CHOOSE c \in real : \A d \in real :
            \/ d[3] < c[3]
            \/ d[3] = c[3] /\ d[1] > c[1]
            \/ d[3] = c[3] /\ d[1] = c[1] /\ d[2] >= c[2]

\* Differ._dump: hi - lo lines of one tag.
dump(tag, lo, hi) == [k \in 1..(hi - lo) |-> tag]

\* Differ._plain_replace: the shorter block first.
plain_replace(alo, ahi, blo, bhi) ==
  IF bhi - blo < ahi - alo THEN dump("+", blo, bhi) \o dump("-", alo, ahi)
  ELSE dump("-", alo, ahi) \o dump("+", blo, bhi)

\* Differ._qformat: the synched pair, each line followed by its "?" line when
\* some character of it is unmatched.
qformat(aline, bline) ==
  <<"-">> \o (IF Matches(aline, bline) < LineLen(aline) THEN <<"?">> ELSE <<>>)
  \o <<"+">> \o (IF Matches(aline, bline) < LineLen(bline) THEN <<"?">> ELSE <<>>)

\* Differ._fancy_replace and Differ._fancy_helper. The delta is the sequence
\* of the first characters of ndiff's lines: "+", "-", "?" or " ".
RECURSIVE fancy_replace(_, _, _, _, _, _)
fancy_helper(a, b, alo, ahi, blo, bhi) ==
  IF alo < ahi
  THEN IF blo < bhi THEN fancy_replace(a, b, alo, ahi, blo, bhi)
       ELSE dump("-", alo, ahi)
  ELSE IF blo < bhi THEN dump("+", blo, bhi)
  ELSE <<>>

fancy_replace(a, b, alo, ahi, blo, bhi) ==
  LET pairs == {<<i, j>> : i \in alo..(ahi - 1), j \in blo..(bhi - 1)}
      \* the loops run over j, then i: p is visited before q
      Before(p, q) == p[2] < q[2] \/ (p[2] = q[2] /\ p[1] < q[1])
      equal == {p \in pairs : a[p[1]] = b[p[2]]}
      \* ratio > 0.74, the initial best_ratio
      close == {p \in pairs \ equal :
                  100 * RatioNum(a[p[1]], b[p[2]]) > 74 * RatioDen(a[p[1]], b[p[2]])}
      Better(p, q) == RatioNum(a[p[1]], b[p[2]]) * RatioDen(a[q[1]], b[q[2]])
                        > RatioNum(a[q[1]], b[q[2]]) * RatioDen(a[p[1]], b[p[2]])
      best == CHOOSE p \in close : \A q \in close \ {p} :
                 Better(p, q) \/ (~Better(q, p) /\ Before(p, q))
      \* best_ratio < cutoff
      no_close == \/ close = {}
                  \/ 100 * RatioNum(a[best[1]], b[best[2]]) < 75 * RatioDen(a[best[1]], b[best[2]])
      eq == CHOOSE p \in equal : \A q \in equal \ {p} : Before(p, q)
      synch == IF no_close THEN eq ELSE best
  IN IF no_close /\ equal = {} THEN plain_replace(alo, ahi, blo, bhi)
     ELSE fancy_helper(a, b, alo, synch[1], blo, synch[2])
          \o (IF no_close THEN <<" ">> ELSE qformat(a[synch[1]], b[synch[2]]))
          \o fancy_helper(a, b, synch[1] + 1, ahi, synch[2] + 1, bhi)

\* Differ.compare over SequenceMatcher.get_opcodes: the matching blocks are
\* found by splitting at the longest match, and each gap between them is a
\* replace, a delete or an insert.
RECURSIVE compare(_, _, _, _, _, _)
compare(a, b, alo, ahi, blo, bhi) ==
  LET m == find_longest_match(a, b, alo, ahi, blo, bhi)
  IN IF m[3] = 0
     THEN fancy_helper(a, b, alo, ahi, blo, bhi)
     ELSE compare(a, b, alo, m[1], blo, m[2])
          \o dump(" ", m[1], m[1] + m[3])
          \o compare(a, b, m[1] + m[3], ahi, m[2] + m[3], bhi)

\* difflib.ndiff(source_a.split("\n"), source_b.split("\n"))
ndiff(a, b) == compare(a, b, 1, Len(a) + 1, 1, Len(b) + 1)

\* ------------------------------------------------- extract_changed_sequences
\* A run is <<operation, start, end>>; None is the empty tuple.
None == <<>>

\* One turn of the loop over the delta: the state is the two line counters,
\* the open run and the list of closed runs.
Close(st, end) ==
  [st EXCEPT !.changed_sequences = Append(@, [st.changed_sequence EXCEPT ![3] = end]),
             !.changed_sequence = None]

\* Lines 150-152: a line that is the same in both versions advances both
\* counters; a "?" line advances none.
advance_same(st, line) ==
  IF line # "?"
  THEN [st EXCEPT !.line_number_a = @ + 1, !.line_number_b = @ + 1]
  ELSE st

LoopBody(st, line) ==
  IF line = "+" THEN
    LET s1 == IF st.changed_sequence # None /\ st.changed_sequence[1] = "-"
              THEN Close(st, st.line_number_a) ELSE st
        s2 == [s1 EXCEPT !.line_number_b = @ + 1]
    IN IF s2.changed_sequence = None
       THEN [s2 EXCEPT !.changed_sequence = <<"+", s2.line_number_b, 0>>]
       ELSE s2
  ELSE IF line = "-" THEN
    LET s1 == IF st.changed_sequence # None /\ st.changed_sequence[1] = "+"
              THEN Close(st, st.line_number_b) ELSE st
        s2 == [s1 EXCEPT !.line_number_a = @ + 1]
    IN IF s2.changed_sequence = None
       THEN [s2 EXCEPT !.changed_sequence = <<"-", s2.line_number_a, 0>>]
       ELSE s2
  ELSE
    LET s1 == IF st.changed_sequence # None /\ st.changed_sequence[1] = "+"
              THEN Close(st, st.line_number_b)
              ELSE IF st.changed_sequence # None /\ st.changed_sequence[1] = "-"
              THEN Close(st, st.line_number_a)
              ELSE st
    IN advance_same(s1, line)

RECURSIVE Loop(_, _)
Loop(st, changed_lines) ==
  IF changed_lines = <<>> THEN st
  ELSE Loop(LoopBody(st, Head(changed_lines)), Tail(changed_lines))

\* The runs returned for a delta.
changed_sequences_of(changed_lines) ==
  Loop([line_number_a |-> 0, line_number_b |-> 0,
        changed_sequence |-> None, changed_sequences |-> <<>>],
       changed_lines).changed_sequences

extract_changed_sequences(a, b) == changed_sequences_of(ndiff(a, b))

\* ------------------------------------------------------------ JavaParser.diff
\* An argument left at its default.
Null == "None"

NullPath == <<>>

DiffMethod(file_name, class_name, method_a, method_b, operation) ==
  [type |-> "DiffMethod", file_name |-> file_name, class_name |-> class_name,
   method_a |-> method_a, method_b |-> method_b, operation |-> operation]

DiffClass(file_name, class_a, class_b, operation) ==
  [type |-> "DiffClass", file_name |-> file_name,
   class_a |-> class_a, class_b |-> class_b, operation |-> operation]

\* The test of lines 182 and 186: an end of the run lies inside the component.
Touches(start_line, end_line, start1, end1) ==
  \/ (start_line >= start1 /\ start_line <= end1)
  \/ (end_line >= start1 /\ end_line <= end1)

\* The loop of lines 179-187 for one operation: the identities of the
\* components that a run of that operation touches.
changed_set(operation, runs, components) ==
  {<<components[k][3], components[k][4]>> :
     k \in {k \in 1..Len(components) :
              \E r \in 1..Len(runs) :
                 /\ runs[r][1] = operation
                 /\ Touches(runs[r][2], runs[r][3], components[k][1], components[k][2])}}

methods_of(components) == {<<components[k][3], components[k][4]>> : k \in 1..Len(components)}
classes_of(components) == {components[k][3] : k \in 1..Len(components)}

\* A variant of line 192 that takes every method of B for added.
methods_added_all(methods_a, methods_b) == methods_b

\* Line 192.
methods_added_of(methods_a, methods_b) == methods_b \ methods_a

\* A variant of line 209 that does not ask the class to be in both versions.
classes_modified_any(classes_a, classes_b, owners) == owners

\* Line 209: a class of both versions that owns a changed method.
classes_modified_of(classes_a, classes_b, owners) == (classes_a \cap classes_b) \cap owners

\* A variant of line 194 that keeps the added and the removed methods.
methods_modified_unfiltered(changed_a_, changed_b_, methods_added, methods_removed) ==
  changed_a_ \cup changed_b_

\* Line 194.
methods_modified_of(changed_a_, changed_b_, methods_added, methods_removed) ==
  (changed_a_ \cup changed_b_) \ (methods_added \cup methods_removed)

\* Lines 189-216: the Diff instances, in the six groups the code appends one
\* after the other: the methods added, removed and modified (lines 197-202),
\* then the classes added, removed and modified (lines 211-216).
diff_groups(path_b_, components_a_, components_b_, changed_a_, changed_b_) ==
  LET methods_a == methods_of(components_a_)
      methods_b == methods_of(components_b_)
      methods_added == methods_added_of(methods_a, methods_b)
      methods_removed == methods_a \ methods_b
      methods_modified == methods_modified_of(changed_a_, changed_b_, methods_added, methods_removed)
      classes_a == classes_of(components_a_)
      classes_b == classes_of(components_b_)
      classes_added == classes_b \ classes_a
      classes_removed == classes_a \ classes_b
      classes_modified ==
        classes_modified_of(classes_a, classes_b,
                            {m[1] : m \in methods_added} \cup {m[1] : m \in methods_removed}
                              \cup {m[1] : m \in methods_modified})
  IN <<{DiffMethod(path_b_, m[1], Null, m[2], "added") : m \in methods_added},
       {DiffMethod(path_b_, m[1], m[2], Null, "removed") : m \in methods_removed},
       {DiffMethod(path_b_, m[1], m[2], m[2], "modified") : m \in methods_modified},
       {DiffClass(path_b_, NullPath, c, "added") : c \in classes_added},
       {DiffClass(path_b_, c, NullPath, "removed") : c \in classes_removed},
       {DiffClass(path_b_, c, c, "modified") : c \in classes_modified}>>

\* The orders in which a for loop can iterate over a set: Python leaves the
\* order open, and each element comes once.
Orders(S) ==
  {s \in [1..Cardinality(S) -> S] : \A x \in S : \E k \in 1..Cardinality(S) : s[k] = x}

\* Lines 197-218: the lists diff can return for the groups: the groups in the
\* order of the code, each in one of the orders of its set.
diffs_of(groups) ==
  {ma \o mr \o mm \o ca \o cr \o cm :
     ma \in Orders(groups[1]), mr \in Orders(groups[2]), mm \in Orders(groups[3]),
     ca \in Orders(groups[4]), cr \in Orders(groups[5]), cm \in Orders(groups[6])}

\* --------------------------------------------------------------- GitExtractor
\* The fallback of line 35 when the CPU count cannot be read; the pool of the
\* model has that many workers.
cpus == 2

\* The paths of the modelled repositories.
Paths == {"A.java", "B.py", "README.md"}

\* schwa.repository.is_code_file: a path with a source-code extension.
is_code_file(path) == path \in {"A.java", "B.py"}

\* The test of lines 115 and 121: "java" in path.
java_in(path) == path = "A.java"

\* is_good_blob of line 57 with the default ignore_regex "^$", which matches
\* no path; a missing blob is not good.
is_good_blob(path) == path # Null /\ is_code_file(path)

\* The text of a blob: every file reads BEFORE before a change and AFTER after it.
BEFORE == <<CLS, F1, END>>
AFTER == <<CLS, F1, MG, END, END>>

DiffFile(file_a, file_b, operation) ==
  [type |-> "DiffFile", file_a |-> file_a, file_b |-> file_b, operation |-> operation]

\* One entry of parent.diff(commit).
Delta(kind, a_path, b_path) == [kind |-> kind, a_path |-> a_path, b_path |-> b_path]

Deltas ==
  {Delta("new", Null, p) : p \in Paths}
  \cup {Delta("deleted", p, Null) : p \in Paths}
  \cup {Delta("modified", p, p) : p \in Paths}
  \cup {Delta("renamed", pq[1], pq[2]) : pq \in {x \in Paths \X Paths : x[1] # x[2]}}

\* A commit as git shows it: a root commit with the blobs of its tree, or a
\* commit with one parent and the tree delta against it.
GitCommits ==
  {[root |-> TRUE, blobs |-> b, deltas |-> <<>>] : b \in {<<>>} \cup {<<p>> : p \in Paths}}
  \cup {[root |-> FALSE, blobs |-> <<>>, deltas |-> d] : d \in {<<>>} \cup {<<x>> : x \in Deltas}}

\* A fixed order of a set: the order in which one interpreter iterates over it
\* (the sets it is applied to hold at most one entry for the files modelled).
RECURSIVE SetToSeq(_)
SetToSeq(S) ==
  IF S = {} THEN <<>>
  ELSE LET x == CHOOSE x \in S : TRUE IN <<x>> \o SetToSeq(S \ {x})

NoEntries == [raised |-> FALSE, diffs |-> <<>>]

\* What a call that returned None makes of the loop that uses its result:
\* iterating over None, or extending a list by it, raises TypeError.
Raised == [raised |-> TRUE, diffs |-> <<>>]

\* Lines 69-72 and 84-87: the added entries of a new file's components.
added_of(path, components) ==
  [raised |-> FALSE,
   diffs |-> [k \in 1..Len(components) |->
                DiffMethod(path, components[k][3], Null, components[k][4], "added")]
             \o SetToSeq({DiffClass(path, NullPath, c, "added") : c \in classes_of(components)})]

\* GitExtractor.parse (lines 113-117) returns None unless "java" is in the
\* path; lines 68-72 and 83-87 iterate over what it returns.
added_entries(path, source) ==
  IF java_in(path) THEN added_of(path, parse(source)) ELSE Raised

\* The groups of a diff one after the other, each in the one order of its set.
RECURSIVE in_turn(_)
in_turn(groups) ==
  IF groups = <<>> THEN <<>> ELSE SetToSeq(Head(groups)) \o in_turn(Tail(groups))

\* JavaParser.diff on parsed components and extracted runs (lines 179-218):
\* every DiffMethod, then every DiffClass.
java_diff(path, ca, cb, runs) ==
  [raised |-> FALSE,
   diffs |-> in_turn(diff_groups(path, ca, cb, changed_set("-", runs, ca), changed_set("+", runs, cb)))]

\* GitExtractor.diff (lines 119-123) returns None unless "java" is in file_a's
\* path; lines 94 and 102 extend diffs_list by what it returns.
diff_entries(file_a_path, file_a_source, file_b_path, file_b_source) ==
  IF java_in(file_a_path)
  THEN java_diff(file_b_path, parse(file_a_source), parse(file_b_source),
                 extract_changed_sequences(file_a_source, file_b_source))
  ELSE Raised

\* A DiffFile followed by the structural entries, if these were asked for.
with_file(diff_file, more) ==
  [raised |-> more.raised, diffs |-> <<diff_file>> \o more.diffs]

\* Lines 63-72: what one blob of a root commit's tree appends.
blob_entries(path, granularity) ==
  IF is_good_blob(path)
  THEN with_file(DiffFile(Null, path, "added"),
                 IF granularity THEN added_entries(path, AFTER) ELSE NoEntries)
  ELSE NoEntries

\* Lines 77-102: what one entry of a parent's tree delta appends.  Every file
\* reads BEFORE on the parent's side and AFTER on the commit's.
delta_entries(diff, granularity) ==
  IF ~is_good_blob(diff.a_path) /\ ~is_good_blob(diff.b_path) THEN NoEntries
  ELSE IF diff.kind = "new" THEN
    with_file(DiffFile(Null, diff.b_path, "added"),
              IF granularity THEN added_entries(diff.b_path, AFTER) ELSE NoEntries)
  ELSE IF diff.kind = "deleted" THEN
    with_file(DiffFile(diff.a_path, Null, "removed"), NoEntries)
  ELSE IF diff.kind = "renamed" /\ ~is_good_blob(diff.b_path) THEN NoEntries
  ELSE
    with_file(DiffFile(diff.a_path, diff.b_path, diff.kind),
              IF granularity THEN diff_entries(diff.a_path, BEFORE, diff.b_path, AFTER)
              ELSE NoEntries)

\* The loops of lines 63 and 76: what the turns append, in order; a turn that
\* raises ends the loop.
RECURSIVE entries_of(_)
entries_of(turns) ==
  IF turns = <<>> THEN NoEntries
  ELSE IF Head(turns).raised THEN [raised |-> TRUE, diffs |-> <<>>]
  ELSE LET rest == entries_of(Tail(turns))
       IN [raised |-> rest.raised, diffs |-> Head(turns).diffs \o rest.diffs]

NoneCommit == [id |-> 0, diffs |-> <<>>]

Commit(id, diffs_list) == [id |-> id, diffs |-> diffs_list]

\* GitExtractor.extract_commit (lines 49-111): the Commit, or None when the
\* commit has no diffs or a TypeError was caught.
extract_commit(hexsha, commit, granularity) ==
  LET got == IF commit.root
             THEN entries_of([k \in 1..Len(commit.blobs) |-> blob_entries(commit.blobs[k], granularity)])
             ELSE entries_of([k \in 1..Len(commit.deltas) |-> delta_entries(commit.deltas[k], granularity)])
  IN IF got.raised THEN NoneCommit
     ELSE IF Len(got.diffs) > 0 THEN Commit(hexsha, got.diffs)
     ELSE NoneCommit

Reverse(s) == [k \in 1..Len(s) |-> s[Len(s) + 1 - k]]

\* A variant of line 46 that leaves the commits newest first.
collect_unreversed(commits) == SelectSeq(commits, LAMBDA c : c # NoneCommit)

\* Line 46: list(reversed([commit for commit in commits if commit])).
collect(commits) == Reverse(SelectSeq(commits, LAMBDA c : c # NoneCommit))

\* A slot of pool.map's result list that no worker has filled yet.
Pending == [id |-> -1, diffs |-> <<>>]

\* A variant of pool.map that hands the results back in the order they arrive.
store_on_arrival(results_, i, value) ==
  [results_ EXCEPT ![CHOOSE k \in 1..Len(results_) :
                       /\ results_[k] = Pending
                       /\ \A l \in 1..(k - 1) : results_[l] # Pending] = value]

\* pool.map (line 43) puts the result of the task at index i of its input at
\* index i of its output, whenever the task completes.
store(results_, i, value) == [results_ EXCEPT ![i] = value]

VARIABLES
  pc,                \* where the modelled call stands
  path_a, source_a,  \* file_a
  path_b, source_b,  \* file_b
  changed_lines,     \* the delta difflib.ndiff yields
  changed_sequences, \* the runs extract_changed_sequences returns
  components_a, components_b,
  changed_a, changed_b,
  diffs,             \* what JavaParser.diff returns
  history,           \* the repository's commits, newest first (iter_commits)
  method_granularity,
  queue,             \* the indices of the tasks no worker has taken, in order
  running,           \* per pool worker, the index of its task (0: idle)
  results,           \* pool.map's result list
  arrival,           \* the task indices in the order their results came back
  commits_parallel,  \* what extract_commits(parallel=True) returned
  commits_sequential, \* what extract_commits(parallel=False) returned
  repository,        \* Repository(commits, begin_ts, last_ts) and its files
  current_timestamp, \* what time.time() returned to analyze
  normalised,        \* per commit, what normalise_timestamp returned
  metrics            \* what analyze returns

dvars == <<path_a, source_a, path_b, source_b, changed_lines, changed_sequences,
           components_a, components_b, changed_a, changed_b, diffs>>

evars == <<history, method_granularity, queue, running, results, arrival,
           commits_parallel, commits_sequential>>

rvars == <<repository, current_timestamp, normalised, metrics>>

vars == <<pc, dvars, evars, rvars>>

Workers == 1..cpus

DiffIdle ==
  /\ path_a = "A.java"
  /\ path_b = "A.java"
  /\ source_a = <<>>
  /\ source_b = <<>>
  /\ changed_lines = <<>>
  /\ changed_sequences = <<>>
  /\ components_a = <<>>
  /\ components_b = <<>>
  /\ changed_a = {}
  /\ changed_b = {}
  /\ diffs = <<>>

ExtractIdle ==
  /\ history = <<>>
  /\ method_granularity = FALSE
  /\ queue = <<>>
  /\ running = [w \in Workers |-> 0]
  /\ results = <<>>
  /\ arrival = <<>>
  /\ commits_parallel = <<>>
  /\ commits_sequential = <<>>

RiskIdle ==
  /\ repository = [commits |-> <<>>, timestamp |-> 0, last_ts |-> 0, files |-> {}]
  /\ current_timestamp = 0
  /\ normalised = <<>>
  /\ metrics = <<>>

\* JavaParser.diff is about to be called on two versions of a file.
InitDiff ==
  /\ pc = "call"
  /\ path_a = "A.java"
  /\ path_b \in {"A.java", "B.java"}
  /\ source_a \in Sources
  /\ source_b \in Sources
  /\ changed_lines = <<>>
  /\ changed_sequences = <<>>
  /\ components_a = <<>>
  /\ components_b = <<>>
  /\ changed_a = {}
  /\ changed_b = {}
  /\ diffs = <<>>
  /\ ExtractIdle
  /\ RiskIdle

\* JavaParser.diff((path_a, source_a), (path_b, source_b)), lines 157-218.
Diff ==
  /\ pc = "call"
  /\ pc' = "returned"
  /\ components_a' = parse(source_a)
  /\ components_b' = parse(source_b)
  /\ changed_lines' = ndiff(source_a, source_b)
  /\ changed_sequences' = changed_sequences_of(changed_lines')
  /\ changed_a' = changed_set("-", changed_sequences', components_a')
  /\ changed_b' = changed_set("+", changed_sequences', components_b')
  /\ diffs' \in diffs_of(diff_groups(path_b, components_a', components_b', changed_a', changed_b'))
  /\ UNCHANGED <<path_a, source_a, path_b, source_b, evars, rvars>>

NextDiff == Diff

SpecDiff == InitDiff /\ [][NextDiff]_vars

\* ---------------------------------------------------------- extract_commits
\* Commits of a modelled history.
MaxCommits == 2

Histories == SeqsUpTo(GitCommits, MaxCommits)

InitExtract ==
  /\ pc = "idle"
  /\ DiffIdle
  /\ RiskIdle
  /\ history \in Histories
  /\ method_granularity \in BOOLEAN
  /\ queue = <<>>
  /\ running = [w \in Workers |-> 0]
  /\ results = <<>>
  /\ arrival = <<>>
  /\ commits_parallel = <<>>
  /\ commits_sequential = <<>>

\* extract_commits(parallel=True) up to pool.map (lines 31-43): the hexshas,
\* newest first, become the pool's tasks.  A hexsha is the commit's position.
ExtractCommitsParallel ==
  /\ pc = "idle"
  /\ pc' = "pool"
  /\ queue' = [i \in 1..Len(history) |-> i]
  /\ results' = [i \in 1..Len(history) |-> Pending]
  /\ UNCHANGED <<dvars, rvars, history, method_granularity, running, arrival, commits_parallel, commits_sequential>>

\* An idle worker takes the next task of the queue.
WorkerTake(w) ==
  /\ pc = "pool"
  /\ running[w] = 0
  /\ queue # <<>>
  /\ running' = [running EXCEPT ![w] = Head(queue)]
  /\ queue' = Tail(queue)
  /\ UNCHANGED <<pc, dvars, rvars, history, method_granularity, results, arrival, commits_parallel, commits_sequential>>

\* A worker completes extract_commit_wrapper(hexsha) and hands the result back.
WorkerFinish(w) ==
  /\ pc = "pool"
  /\ running[w] # 0
  /\ results' = store(results, running[w],
                      extract_commit(running[w], history[running[w]], method_granularity))
  /\ arrival' = Append(arrival, running[w])
  /\ running' = [running EXCEPT ![w] = 0]
  /\ UNCHANGED <<pc, dvars, rvars, history, method_granularity, queue, commits_parallel, commits_sequential>>

\* pool.map returns when every task is done; lines 46-47 follow.
PoolMapReturn ==
  /\ pc = "pool"
  /\ queue = <<>>
  /\ \A w \in Workers : running[w] = 0
  /\ pc' = "returned_parallel"
  /\ commits_parallel' = collect(results)
  /\ UNCHANGED <<dvars, rvars, history, method_granularity, queue, running, results, arrival, commits_sequential>>

\* extract_commits(parallel=False) on the same repository: the builtin map of
\* line 45, consumed by line 46.
ExtractCommitsSequential ==
  /\ pc = "returned_parallel"
  /\ pc' = "returned_both"
  /\ commits_sequential' =
       collect([i \in 1..Len(history) |-> extract_commit(i, history[i], method_granularity)])
  /\ UNCHANGED <<dvars, rvars, history, method_granularity, queue, running, results, arrival, commits_parallel>>

NextExtract ==
  \/ ExtractCommitsParallel
  \/ \E w \in Workers : WorkerTake(w)
  \/ \E w \in Workers : WorkerFinish(w)
  \/ PoolMapReturn
  \/ ExtractCommitsSequential

SpecExtract == InitExtract /\ [][NextExtract]_vars

\* ------------------------------------------------- TimeWeightedRiskAnalysis
\* Seconds between the repository's first commit and its last one, seconds
\* the analysis may run after the last commit, and commits of a repository.
MaxAge == 2
MaxDelay == 1
MaxRiskCommits == 2

Files == {"X.java", "Y.java"}

\* A commit as analyze reads it: its timestamp, whether is_bug_fixing matches
\* its message, and the files its diffs touch.
RiskCommits(begin_ts, last_ts) ==
  [timestamp : begin_ts..last_ts, bug_fixing : BOOLEAN, files : {{f} : f \in Files}]

Ascending(commits) ==
  \A i \in 1..Len(commits), j \in 1..Len(commits) :
    i < j => commits[i].timestamp <= commits[j].timestamp

\* GitExtractor.extract (lines 26-28): Repository(commits, begin_ts, last_ts),
\* begin_ts and last_ts the times of the oldest and the newest commit.  Times
\* are counted from the first commit.
Repositories ==
  UNION {[commits : {c \in SeqsUpTo(RiskCommits(0, last), MaxRiskCommits) : Ascending(c)},
          timestamp : {0}, last_ts : {last}, files : {{"X.java"}, Files}]
         : last \in 1..MaxAge}

\* normalise_timestamp (lines 17-21), the quotient kept as <<begin_diff, diff>>.
normalise_timestamp(begin_ts, ts, current_ts) == <<ts - begin_ts, current_ts - begin_ts>>

\* Lines 33-36 for one commit: the weight 1 / (1 + e ** (-12 * ts + 12)) is a
\* function of ts alone, so a score is kept as the list of the ts it sums over.
RECURSIVE add_commits(_, _, _, _)
add_commits(scores, commits, begin_ts, current_ts) ==
  IF commits = <<>> THEN scores
  ELSE LET commit == Head(commits)
           ts == normalise_timestamp(begin_ts, commit.timestamp, current_ts)
           next == IF commit.bug_fixing
                   THEN [f \in DOMAIN scores |->
                           IF f \in commit.files THEN Append(scores[f], ts) ELSE scores[f]]
                   ELSE scores
       IN add_commits(next, Tail(commits), begin_ts, current_ts)

InitRisk ==
  /\ pc = "extracted"
  /\ DiffIdle
  /\ ExtractIdle
  /\ repository \in Repositories
  /\ current_timestamp = 0
  /\ normalised = <<>>
  /\ metrics = <<>>

\* TimeWeightedRiskAnalysis.analyze (lines 23-37), run at some time not before
\* the repository's last commit.
Analyze ==
  /\ pc = "extracted"
  /\ pc' = "analyzed"
  /\ \E now \in repository.last_ts..(repository.last_ts + MaxDelay) :
       /\ current_timestamp' = now
       /\ normalised' = [k \in 1..Len(repository.commits) |->
                           normalise_timestamp(repository.timestamp,
                                               repository.commits[k].timestamp, now)]
       /\ metrics' = add_commits([f \in repository.files |-> <<>>], repository.commits,
                                 repository.timestamp, now)
  /\ UNCHANGED <<dvars, evars, repository>>

NextRisk == Analyze

SpecRisk == InitRisk /\ [][NextRisk]_vars

\* ================================================================== claims
\* The identity a DiffMethod or DiffClass is about.
DiffIdentity(d) ==
  IF d.type = "DiffMethod"
  THEN <<d.class_name, IF d.method_b # Null THEN d.method_b ELSE d.method_a>>
  ELSE <<IF d.class_b # NullPath THEN d.class_b ELSE d.class_a>>

\* The entries of the list JavaParser.diff returned.
Returned == {diffs[k] : k \in 1..Len(diffs)}

\* Every method and class of the components, each with the one operation.
AllWith(path, components, operation) ==
  {DiffMethod(path, m[1], IF operation = "removed" THEN m[2] ELSE Null,
              IF operation = "added" THEN m[2] ELSE Null, operation) : m \in methods_of(components)}
  \cup {DiffClass(path, IF operation = "removed" THEN c ELSE NullPath,
                  IF operation = "added" THEN c ELSE NullPath, operation) : c \in classes_of(components)}

\* The value of a version's line counter after the first i lines of the delta:
\* the lines among them that belong to that version.
LinesOf(tags, i) == Cardinality({k \in 1..i : changed_lines[k] \in tags})
LineNumber(tag, i) == IF tag = "+" THEN LinesOf({"+", " "}, i) ELSE LinesOf({"-", " "}, i)

\* Two inclusive line ranges share a line.
Overlaps(start_line, end_line, start1, end1) == start_line <= end1 /\ start1 <= end_line

\* C1: JavaParser.diff of a source against itself, under any paths, finds no
\* edit run and returns no DiffMethod and no DiffClass.
C1_DiffOfIdenticalSourcesIsEmpty ==
  (pc = "returned" /\ source_a = source_b) => (changed_sequences = <<>> /\ diffs = <<>>)

\* C1's case: identical sources with several methods, diffed under two paths.
C1_Witness ==
  /\ pc = "returned"
  /\ source_a = source_b
  /\ path_a # path_b
  /\ Len(components_a) >= 2

\* C6: in what JavaParser.diff returns, a method identity is in at most one
\* DiffMethod and a class path in at most one DiffClass, each with one of the
\* operations added, removed, modified.
C6_OneDiffPerIdentity ==
  pc = "returned" =>
    \A k \in 1..Len(diffs) :
      /\ diffs[k].operation \in {"added", "removed", "modified"}
      /\ \A l \in 1..Len(diffs) :
           (diffs[k].type = diffs[l].type /\ DiffIdentity(diffs[k]) = DiffIdentity(diffs[l]))
             => k = l

\* C6's case: a removed method that a removed run touched, beside a modified
\* method and an added one.
C6_Witness ==
  /\ pc = "returned"
  /\ \E d \in Returned :
       d.type = "DiffMethod" /\ d.operation = "removed" /\ DiffIdentity(d) \in changed_a
  /\ \E d \in Returned : d.type = "DiffClass" /\ d.operation = "modified"
  /\ \E d \in Returned : d.type = "DiffMethod" /\ d.operation = "added"

\* C7: every component that shares a line with a removed run is marked
\* touched in A, and every component that shares a line with an added run is
\* marked touched in B.
C7_OverlappedComponentsAreTouched ==
  pc = "returned" =>
    \A r \in 1..Len(changed_sequences) :
      LET run == changed_sequences[r] IN
      /\ run[1] = "-" =>
           \A k \in 1..Len(components_a) :
             Overlaps(run[2], run[3], components_a[k][1], components_a[k][2])
               => <<components_a[k][3], components_a[k][4]>> \in changed_a
      /\ run[1] = "+" =>
           \A k \in 1..Len(components_b) :
             Overlaps(run[2], run[3], components_b[k][1], components_b[k][2])
               => <<components_b[k][3], components_b[k][4]>> \in changed_b

\* C8: when one side of JavaParser.diff does not parse, nothing is modified:
\* the result is every method and class of the other side, added when A
\* failed and removed when B failed.
C8_FailedSideGivesAddedOrRemovedOnly ==
  pc = "returned" =>
    /\ ~parse_string(source_a).ok => Returned = AllWith(path_b, parse(source_b), "added")
    /\ ~parse_string(source_b).ok => Returned = AllWith(path_b, parse(source_a), "removed")

\* C8's case: A does not parse and an added run touches a method of B.
C8_Witness ==
  /\ pc = "returned"
  /\ ~parse_string(source_a).ok
  /\ changed_b # {}
  /\ \E d \in Returned : d.type = "DiffClass"

\* C9: extract_changed_sequences ignores the "?" lines of the delta: the runs
\* it returns are those the same loop returns for the delta with every "?"
\* line deleted, so same-direction lines with only a "?" line between them are
\* one run, and only a change of direction or an unchanged line closes a run.
C9_HintLinesAreIgnored ==
  pc = "returned" =>
    changed_sequences = changed_sequences_of(SelectSeq(changed_lines, LAMBDA l : l # "?"))

\* C10: every added line and every removed line of the delta lies in exactly
\* one returned run of its direction, the last lines of the file included.
C10_EveryChangedLineIsInOneRun ==
  pc = "returned" =>
    \A i \in 1..Len(changed_lines) :
      changed_lines[i] \in {"+", "-"} =>
        Cardinality({r \in 1..Len(changed_sequences) :
                       /\ changed_sequences[r][1] = changed_lines[i]
                       /\ changed_sequences[r][2] <= LineNumber(changed_lines[i], i)
                       /\ LineNumber(changed_lines[i], i) <= changed_sequences[r][3]}) = 1

\* C2: extract_commits returns the same Commit sequence, diffs included, with
\* parallel=True as with parallel=False, in whatever order the workers finish.
C2_ParallelEqualsSequential ==
  pc = "returned_both" => commits_parallel = commits_sequential

\* C2's case: the pool's results came back out of order and both are kept.
C2_Witness ==
  /\ pc = "returned_both"
  /\ arrival = <<2, 1>>
  /\ Len(commits_parallel) = 2
  /\ commits_parallel[1].diffs # commits_parallel[2].diffs

\* C3: extract_commits returns the commits whose extraction gave a Commit,
\* each once, oldest first, and none with an empty diff list.
C3_AscendingAndOnlyNonEmpty ==
  pc = "returned_both" =>
    \A out \in {commits_parallel, commits_sequential} :
      /\ \A k \in 1..Len(out) : out[k].id \in 1..Len(history) /\ Len(out[k].diffs) > 0
      /\ \A k \in 1..Len(out), l \in 1..Len(out) : k < l => out[k].id > out[l].id
      /\ \A i \in 1..Len(history) :
           (extract_commit(i, history[i], method_granularity) # NoneCommit)
             <=> (\E k \in 1..Len(out) :
                    out[k] = extract_commit(i, history[i], method_granularity))

\* C3's case: of two commits the newer is kept and the older, which touches
\* no file in scope, is dropped.
C3_Witness ==
  /\ pc = "returned_both"
  /\ Len(history) = 2
  /\ ~history[2].root /\ history[2].deltas # <<>>
  /\ Len(commits_parallel) = 1
  /\ commits_parallel[1].id = 1

\* A file in scope that a commit adds, renames or modifies and whose path is
\* not taken for Java.
UnparsedFiles(commit) ==
  {commit.blobs[k] : k \in {k \in 1..Len(commit.blobs) :
      is_good_blob(commit.blobs[k]) /\ ~java_in(commit.blobs[k])}}
  \cup {commit.deltas[k].b_path : k \in {k \in 1..Len(commit.deltas) :
      /\ commit.deltas[k].kind \in {"new", "renamed", "modified"}
      /\ is_good_blob(commit.deltas[k].b_path)
      /\ ~java_in(commit.deltas[k].b_path)}}

\* C5: with structural detail asked for, a commit that adds, renames or
\* modifies a file in scope that has no parser still yields a Commit with the
\* file's DiffFile, and no DiffMethod or DiffClass for that file.
C5_UnparsedFileKeepsItsDiffFile ==
  \A i \in 1..Len(results) :
    (results[i] # Pending /\ method_granularity) =>
      \A f \in UnparsedFiles(history[i]) :
        /\ results[i] # NoneCommit
        /\ \E k \in 1..Len(results[i].diffs) :
             results[i].diffs[k].type = "DiffFile" /\ results[i].diffs[k].file_b = f
        /\ \A k \in 1..Len(results[i].diffs) :
             results[i].diffs[k].type # "DiffFile" => results[i].diffs[k].file_name # f

\* C4: analyze places a bug-fixing commit at (timestamp - created_at) /
\* (evaluated_at - created_at), whenever it runs; a commit made at
\* evaluated_at is at 1.
C4_NormalisedAgainstEvaluatedAt ==
  pc = "analyzed" =>
    \A k \in 1..Len(repository.commits) :
      repository.commits[k].bug_fixing =>
        /\ normalised[k][1] * (repository.last_ts - repository.timestamp)
             = (repository.commits[k].timestamp - repository.timestamp) * normalised[k][2]
        /\ repository.commits[k].timestamp = repository.last_ts
             => normalised[k][1] = normalised[k][2]
====
